---- MODULE Spec2Model ----
(***************************************************************************)
(* The document-verification page (Home) and its upload pipeline.          *)
(*                                                                         *)
(* The page exists in two variants: the "/verify" page, which crops, then  *)
(* compresses, then posts through the shared axios instance and treats     *)
(* is_authentic = false as a rejection; and the "/user/documents" page,    *)
(* which compresses, then crops, then fetches the blob and posts it, and   *)
(* shows every successful response as a result.                            *)
(*                                                                         *)
(* The state is the React state of Home plus what is pending in the event  *)
(* loop: FileReader loads that have been started and not yet delivered,    *)
(* and handleUpload invocations suspended at one of their awaits.  Every   *)
(* action is one event-loop task: a user event handler run to completion,  *)
(* or the continuation of an await up to the next await.                   *)
(*                                                                         *)
(* Environment: the native file picker opened by handleClick is modal for  *)
(* the page (no click or drop reaches the page while it is open), but      *)
(* asynchronous completions are still delivered while it is open.          *)
(***************************************************************************)
EXTENDS Integers, Sequences, FiniteSets, Bags, TLC

VARIABLES
    variant,            \* which page this instance is: "verify" or "documents"
    error,              \* useState<string | null>
    uploading,          \* useState<boolean>
    preview,            \* useState<string | null>: the data URL shown in the cropper
    isDragOver,         \* useState<boolean>
    selectedFile,       \* useState<File | null>
    croppedAreaPixels,  \* useState<any>: the last region reported by the cropper
    result,             \* useState<VerifyAuthenticityResponse | null>
    pickerOpen,         \* the native file picker opened by handleClick is showing
    readers,            \* files whose FileReader.readAsDataURL has not yet fired onload
    tasks,              \* bag of suspended handleUpload invocations
    call                \* a call of an image helper examined on its own, or null

vars == <<variant, error, uploading, preview, isDragOver, selectedFile,
          croppedAreaPixels, result, pickerOpen, readers, tasks, call>>

(***************************************************************************)
(* Bounds of the model.                                                    *)
(***************************************************************************)
\* The most handleUpload invocations suspended at the same time.
MaxInFlight == 2

(***************************************************************************)
(* Nullable values: null is the empty sequence, a value v is <<v>>.        *)
(***************************************************************************)
null == <<>>
Some(v) == <<v>>
Val(o) == o[1]

(***************************************************************************)
(* Files the user can offer.  A MIME type is the sequence of its parts.    *)
(***************************************************************************)
ImageFiles ==
    { [name |-> <<"a", ".", "png">>, type |-> <<"image", "/", "png">>,  width |-> 20, height |-> 10],
      [name |-> <<"b", ".", "v2", ".", "jpeg">>, type |-> <<"image", "/", "jpeg">>, width |-> 10, height |-> 10] }

OtherFiles ==
    { [name |-> <<"t", ".", "txt">>, type |-> <<"text", "/", "plain">>, width |-> 0, height |-> 0],
      [name |-> <<"u">>, type |-> <<>>,                      width |-> 0, height |-> 0] }

Files == ImageFiles \cup OtherFiles

\* String.prototype.startsWith on sequences
StartsWith(s, prefix) ==
    /\ Len(s) >= Len(prefix)
    /\ \A i \in 1..Len(prefix) : s[i] = prefix[i]

\* a looser test: any type with a "/" in it passes
IsImageTypeAnySlash(file) == \E i \in 1..Len(file.type) : file.type[i] = "/"

\* file.type.startsWith("image/")
IsImageType(file) == StartsWith(file.type, <<"image", "/">>)

\* What FileReader.readAsDataURL delivers for a file.
DataURL(file) == [dataOf |-> file.name, width |-> file.width, height |-> file.height]

(***************************************************************************)
(* Messages.                                                               *)
(***************************************************************************)
NotImageMsg == "Please select an image file only"
GenericMsg  == "Upload failed. Please try again."

\* a || b on strings: the empty string is falsy
OrElse(a, b) == IF a = "" THEN b ELSE a

(***************************************************************************)
(* The service's answers.  confidence is in ten-thousandths.               *)
(***************************************************************************)
Verdict(auth, conf, why) ==
    [result |-> Some([is_authentic |-> auth, confidence |-> conf, reasoning |-> why]),
     error  |-> ""]

AuthenticPayloads == { Verdict(TRUE, 9200, "genuine"), Verdict(TRUE, 8746, "") }
RejectedPayloads  == { Verdict(FALSE, 3100, "forged seal"), Verdict(FALSE, 3100, "") }
\* a structured error: an error string and no result object
ErrorPayloads     == { [result |-> null, error |-> "unsupported document"] }

Payloads == AuthenticPayloads \cup RejectedPayloads \cup ErrorPayloads

\* How the POST settles: a 2xx response with a payload, a non-2xx response whose
\* body may carry a message, or no response at all.
PostOutcomes ==
    { [kind |-> "ok", data |-> Some(p), message |-> ""] : p \in Payloads }
    \cup { [kind |-> "http", data |-> null, message |-> m] : m \in {"quota exceeded", ""} }
    \cup { [kind |-> "network", data |-> null, message |-> ""] }

(***************************************************************************)
(* The crop widget.  EasyCrop is mounted while a preview is shown and      *)
(* reports, through onCropComplete, a region of the image it displays.     *)
(***************************************************************************)
CropsOf(image) ==
    { [x |-> 2, y |-> 1, width |-> image.width - 4, height |-> image.height - 2] }

(***************************************************************************)
(* The asynchronous helpers, by the kinds of value they can settle with.   *)
(***************************************************************************)
\* getCroppedImg: a blob URL, null (no 2D context), or a rejection (the image
\* does not load, or toBlob yields no blob).
GetCroppedImgSettles == {"string", "null", "reject"}

\* optimizeImage never rejects: a blob URL or a File by returnType, or null.
OptimizeImageSettles(returnType) ==
    IF returnType = "string" THEN {"string", "null"} ELSE {"file", "null"}

(***************************************************************************)
(* A suspended handleUpload: where it waits, and what its closure holds.   *)
(***************************************************************************)
\* pc: the await it is suspended at.  name: selectedFile.name as read at the
\* click.  img: the image it holds, as the steps applied so far to the preview
\* read at the click (<<>> is that preview itself; <<"null">> is a null handed
\* on in place of an image).
Task(pc, name, img) == [pc |-> pc, name |-> name, img |-> img]

Suspended == BagToSet(tasks)
InFlight == BagCardinality(tasks)
Posting == { t \in Suspended : t.pc = "post" }
\* the number of POST requests sent and not yet settled
OutstandingPosts == BagCardinality([t \in Posting |-> tasks[t]])

Add(t) == tasks (+) SetToBag({t})
Replace(t, u) == (tasks (-) SetToBag({t})) (+) SetToBag({u})
Remove(t) == tasks (-) SetToBag({t})

(***************************************************************************)
(* Initial state: the useState initial values, nothing pending.            *)
(***************************************************************************)
\* the page as first rendered
Mounted ==
    /\ variant \in {"verify", "documents"}
    /\ error = null
    /\ uploading = FALSE
    /\ preview = null
    /\ isDragOver = FALSE
    /\ selectedFile = null
    /\ croppedAreaPixels = null
    /\ result = null
    /\ pickerOpen = FALSE
    /\ readers = {}
    /\ tasks = EmptyBag

Init ==
    /\ Mounted
    /\ call = null

(***************************************************************************)
(* File intake.                                                            *)
(***************************************************************************)
\* the dropzone's handlers attached whatever is shown
DropzoneAlwaysLive == ~pickerOpen

\* The dropzone's handlers are attached only while no preview is shown.
DropzoneLive == preview = null /\ ~pickerOpen
\* The Verify and Reset buttons are rendered only while a preview is shown.
ButtonsShown == preview # null /\ ~pickerOpen

\* a selection handler that leaves an earlier result on screen
HandleFileSelectKeepsResult(file) ==
    IF ~IsImageType(file)
    THEN /\ error' = Some(NotImageMsg)
         /\ UNCHANGED <<selectedFile, result, readers>>
    ELSE /\ selectedFile' = Some(file)
         /\ error' = null
         /\ readers' = readers \cup {file}
         /\ UNCHANGED result

\* handleFileSelect(file) for a non-null file: its effect on the state it writes.
HandleFileSelect(file) ==
    IF ~IsImageType(file)
    THEN /\ error' = Some(NotImageMsg)
         /\ UNCHANGED <<selectedFile, result, readers>>
    ELSE /\ selectedFile' = Some(file)
         /\ error' = null
         /\ result' = null
         /\ readers' = readers \cup {file}

HandleDragOver ==
    /\ DropzoneLive
    /\ isDragOver' = TRUE
    /\ UNCHANGED <<call, variant, error, uploading, preview, selectedFile,
                   croppedAreaPixels, result, pickerOpen, readers, tasks>>

HandleDragLeave ==
    /\ DropzoneLive
    /\ isDragOver' = FALSE
    /\ UNCHANGED <<call, variant, error, uploading, preview, selectedFile,
                   croppedAreaPixels, result, pickerOpen, readers, tasks>>

\* dropped is e.dataTransfer.files: only its first entry is looked at.
HandleDrop(dropped) ==
    /\ DropzoneLive
    /\ isDragOver' = FALSE
    /\ IF Len(dropped) > 0
       THEN HandleFileSelect(dropped[1])
       ELSE UNCHANGED <<selectedFile, error, result, readers>>
    /\ UNCHANGED <<call, variant, uploading, preview, croppedAreaPixels, pickerOpen, tasks>>

HandleClick ==
    /\ DropzoneLive
    /\ pickerOpen' = TRUE
    /\ UNCHANGED <<call, variant, error, uploading, preview, isDragOver, selectedFile,
                   croppedAreaPixels, result, readers, tasks>>

\* chosen is e.target.files: empty when the picker is dismissed.
HandleFileInputChange(chosen) ==
    /\ pickerOpen
    /\ pickerOpen' = FALSE
    /\ IF Len(chosen) > 0
       THEN HandleFileSelect(chosen[1])
       ELSE UNCHANGED <<selectedFile, error, result, readers>>
    /\ UNCHANGED <<call, variant, uploading, preview, isDragOver, croppedAreaPixels, tasks>>

\* reader.onload
ReaderLoad(file) ==
    /\ file \in readers
    /\ readers' = readers \ {file}
    /\ preview' = Some(DataURL(file))
    /\ UNCHANGED <<call, variant, error, uploading, isDragOver, selectedFile,
                   croppedAreaPixels, result, pickerOpen, tasks>>

\* the read fails: no onerror handler is installed, nothing is delivered
ReaderFail(file) ==
    /\ file \in readers
    /\ readers' = readers \ {file}
    /\ UNCHANGED <<call, variant, error, uploading, preview, isDragOver, selectedFile,
                   croppedAreaPixels, result, pickerOpen, tasks>>

OnCropComplete(region) ==
    /\ preview # null
    /\ region \in CropsOf(Val(preview))
    /\ croppedAreaPixels' = Some(region)
    /\ UNCHANGED <<call, variant, error, uploading, preview, isDragOver, selectedFile,
                   result, pickerOpen, readers, tasks>>

\* a reset that forgets to release the selected file
HandleResetKeepsFile ==
    /\ ButtonsShown
    /\ preview' = null
    /\ result' = null
    /\ error' = null
    /\ UNCHANGED <<call, variant, uploading, isDragOver, selectedFile,
                   croppedAreaPixels, pickerOpen, readers, tasks>>

HandleReset ==
    /\ ButtonsShown
    /\ selectedFile' = null
    /\ preview' = null
    /\ result' = null
    /\ error' = null
    /\ UNCHANGED <<call, variant, uploading, isDragOver, croppedAreaPixels,
                   pickerOpen, readers, tasks>>

(***************************************************************************)
(* handleUpload.  The Verify button is disabled while uploading is true.   *)
(* Up to its first await the handler only reads the state of the render    *)
(* it was created in; what it read stays in its closure.  The preview and  *)
(* the crop region it read only feed getCroppedImg and optimizeImage,      *)
(* whose settlements are modelled by kind.                                 *)
(***************************************************************************)
FirstAwait == IF variant = "verify" THEN "crop" ELSE "optimize"

\* a handler that goes ahead without a crop region
HandleUploadUnchecked ==
    /\ ButtonsShown
    /\ ~uploading
    /\ IF selectedFile = null
       THEN UNCHANGED tasks
       ELSE /\ InFlight < MaxInFlight
            /\ tasks' = Add(Task(FirstAwait, Val(selectedFile).name, <<>>))
    /\ UNCHANGED <<call, variant, error, uploading, preview, isDragOver, selectedFile,
                   croppedAreaPixels, result, pickerOpen, readers>>

HandleUpload ==
    /\ ButtonsShown
    /\ ~uploading
    /\ IF selectedFile = null \/ ~(croppedAreaPixels # null /\ preview # null)
       THEN UNCHANGED tasks
       ELSE /\ InFlight < MaxInFlight
            /\ tasks' = Add(Task(FirstAwait, Val(selectedFile).name, <<>>))
    /\ UNCHANGED <<call, variant, error, uploading, preview, isDragOver, selectedFile,
                   croppedAreaPixels, result, pickerOpen, readers>>

\* setUploading(true); setError(null); and the request is prepared.
BeginAttempt(t, next, img) ==
    /\ uploading' = TRUE
    /\ error' = null
    /\ tasks' = Replace(t, Task(next, t.name, img))
    /\ UNCHANGED result

\* the invocation returns (or dies on an unhandled rejection) without a word
Abandon(t) ==
    /\ tasks' = Remove(t)
    /\ UNCHANGED <<error, uploading, result>>

\* await getCroppedImg(...) settles with a value of kind k
CropSettles(t, k) ==
    /\ t \in Suspended
    /\ t.pc = "crop"
    /\ k \in GetCroppedImgSettles
    /\ IF variant = "verify"
       THEN IF k = "string"
            THEN /\ tasks' = Replace(t, Task("optimize", t.name, Append(t.img, "crop")))
                 /\ UNCHANGED <<error, uploading, result>>
            ELSE Abandon(t)
       ELSE IF k = "string"
            THEN BeginAttempt(t, "fetch", Append(t.img, "crop"))
            ELSE Abandon(t)
    /\ UNCHANGED <<call, variant, preview, isDragOver, selectedFile, croppedAreaPixels,
                   pickerOpen, readers>>

\* await optimizeImage(...) settles with a value of kind k
OptimizeSettles(t, k) ==
    /\ t \in Suspended
    /\ t.pc = "optimize"
    /\ IF variant = "verify"
       THEN /\ k \in OptimizeImageSettles("file")
            /\ IF k = "string"
               THEN Abandon(t)
               ELSE BeginAttempt(t, "post", IF k = "file"
                                            THEN Append(t.img, "optimize")
                                            ELSE <<"null">>)
       ELSE /\ k \in OptimizeImageSettles("string")
            /\ IF k = "string"
               THEN /\ tasks' = Replace(t, Task("crop", t.name, Append(t.img, "optimize")))
                    /\ UNCHANGED <<error, uploading, result>>
               ELSE Abandon(t)
    /\ UNCHANGED <<call, variant, preview, isDragOver, selectedFile, croppedAreaPixels,
                   pickerOpen, readers>>

\* a catch block that ignores the response's message
CatchMessageGeneric(o) == GenericMsg

\* the catch block's message: err.response?.data?.message || generic
CatchMessage(o) ==
    IF o.kind = "http" THEN OrElse(o.message, GenericMsg) ELSE GenericMsg

\* a catch block that sends the request again instead of giving up
CaughtRetry(t, o) ==
    /\ error' = Some(CatchMessage(o))
    /\ uploading' = FALSE
    /\ tasks' = Replace(t, Task("post", t.name, t.img))
    /\ UNCHANGED result

\* catch { setError(...) } finally { setUploading(false) }
Caught(t, o) ==
    /\ error' = Some(CatchMessage(o))
    /\ uploading' = FALSE
    /\ tasks' = Remove(t)
    /\ UNCHANGED result

\* the "/user/documents" page reads the cropped blob back before posting it
FetchSettles(t, ok) ==
    /\ t \in Suspended
    /\ t.pc = "fetch"
    /\ IF ok
       THEN /\ tasks' = Replace(t, Task("post", t.name, t.img))
            /\ UNCHANGED <<error, uploading, result>>
       ELSE Caught(t, [kind |-> "network", data |-> null, message |-> ""])
    /\ UNCHANGED <<call, variant, preview, isDragOver, selectedFile, croppedAreaPixels,
                   pickerOpen, readers>>

\* a try block without the finally that ends uploading
OnResponseNoFinally(t, data) ==
    /\ result' = Some(data)
    /\ tasks' = Remove(t)
    /\ UNCHANGED <<error, uploading>>

\* what the try block does with a 2xx response carrying data
OnResponse(t, data) ==
    IF variant = "verify"
    THEN IF data.result = null
         \* response.data.result.is_authentic throws a TypeError: caught, and the
         \* error has no response
         THEN Caught(t, [kind |-> "network", data |-> null, message |-> ""])
         ELSE /\ IF ~Val(data.result).is_authentic
                 THEN /\ error' = Some(OrElse(Val(data.result).reasoning, GenericMsg))
                      /\ UNCHANGED result
                 ELSE /\ result' = Some(data)
                      /\ UNCHANGED error
              /\ uploading' = FALSE
              /\ tasks' = Remove(t)
    ELSE /\ result' = Some(data)
         /\ uploading' = FALSE
         /\ tasks' = Remove(t)
         /\ UNCHANGED error

\* await axios.post(...) settles with outcome o
PostSettles(t, o) ==
    /\ t \in Suspended
    /\ t.pc = "post"
    /\ o \in PostOutcomes
    /\ IF o.kind = "ok" THEN OnResponse(t, Val(o.data)) ELSE Caught(t, o)
    /\ UNCHANGED <<call, variant, preview, isDragOver, selectedFile, croppedAreaPixels,
                   pickerOpen, readers>>

\* fileName.split(".")[0]: the name up to its first "."
SplitFirst(fileName) ==
    LET dots == { i \in 1..Len(fileName) : fileName[i] = "." }
    IN  IF dots = {}
        THEN fileName
        ELSE SubSeq(fileName, 1, (CHOOSE i \in dots : \A j \in dots : i <= j) - 1)

\* optimizeImage's File: new File([blob], fileName.split(".")[0] + ".webp")
WebpFile(fileName) ==
    [kind |-> "file", name |-> SplitFirst(fileName) \o <<".", "webp">>,
     type |-> <<"image", "/", "webp">>]

\* the fields appended to the FormData that the POST of invocation t sends
RequestBody(t) ==
    IF variant = "verify"
    THEN IF t.img = <<"null">>
         \* formData.append("image", null) stores the text "null"
         THEN << [field |-> "image", value |-> [kind |-> "text", text |-> "null"]] >>
         ELSE << [field |-> "image", value |-> WebpFile(t.name)] >>
    \* new File([blob], imageName, {type: blob.type}) around the PNG crop
    ELSE << [field |-> "image",
             value |-> [kind |-> "file", name |-> t.name,
                        type |-> <<"image", "/", "png">>]] >>

(***************************************************************************)
(* The page.                                                               *)
(***************************************************************************)
Drops == {<<>>} \cup { <<f>> : f \in Files }
AllRegions == UNION { CropsOf(DataURL(f)) : f \in ImageFiles }

Drop == \E d \in Drops : HandleDrop(d)
FileInputChange == \E c \in Drops : HandleFileInputChange(c)
Loaded == \E f \in ImageFiles : ReaderLoad(f)
LoadFailed == \E f \in ImageFiles : ReaderFail(f)
CropComplete == \E r \in AllRegions : OnCropComplete(r)
Cropped == \E t \in Suspended, k \in GetCroppedImgSettles : CropSettles(t, k)
Optimized == \E t \in Suspended, k \in {"string", "file", "null"} : OptimizeSettles(t, k)
Fetched == \E t \in Suspended, ok \in BOOLEAN : FetchSettles(t, ok)
Posted == \E t \in Suspended, o \in PostOutcomes : PostSettles(t, o)

\* The drag highlight is written by the drag handlers alone and read by no
\* handler, so the pipeline is explored without the two handlers that only
\* toggle it; SpecDrag adds them.
Next ==
    \/ Drop
    \/ HandleClick
    \/ FileInputChange
    \/ Loaded
    \/ LoadFailed
    \/ CropComplete
    \/ HandleUpload
    \/ HandleReset
    \/ Cropped
    \/ Optimized
    \/ Fetched
    \/ Posted

Spec == Init /\ [][Next]_vars

NextDrag == Next \/ HandleDragOver \/ HandleDragLeave

SpecDrag == Init /\ [][NextDrag]_vars

(***************************************************************************)
(* optimizeImage on its own: one call, from its arguments and what the     *)
(* browser gives it, to the value its promise resolves with.               *)
(***************************************************************************)
\* The largest width and height of the images handed to a lone call.
MaxSide == 12

\* const scale = 0.9, in tenths
scaleTenths == 9

\* what the browser can do to a call: nothing, fail to load the image, give
\* no 2D context, give no blob from toBlob, or encode PNG because it has no
\* encoder for the type asked of toBlob
Browser == {"ok", "image error", "no context", "no blob", "png fallback"}

\* const mimeType = "image/webp"
mimeType == <<"image", "/", "webp">>

\* blob.type: the type toBlob encoded, which is the one asked for only if the
\* browser can encode it
BlobType(browser) ==
    IF browser = "png fallback" THEN <<"image", "/", "png">> ELSE mimeType

\* canvas.width = n * scale rounded to the nearest integer
CanvasSideRounded(n) == (n * scaleTenths + 5) \div 10

\* canvas.width = n * scale: the attribute is an unsigned long, the fraction
\* of the product is dropped
CanvasSide(n) == (n * scaleTenths) \div 10

\* the value the promise of optimizeImage(image, fileName, returnType)
\* resolves with: null, or what was encoded from the canvas
OptimizeImage(image, fileName, returnType, browser) ==
    IF browser \in {"image error", "no context"}
    THEN null
    ELSE LET width == CanvasSide(image.width)
             height == CanvasSide(image.height)
         IN  \* toBlob calls back with null for a canvas without pixels
             IF browser = "no blob" \/ width = 0 \/ height = 0
             THEN null
             ELSE Some([kind |-> returnType, width |-> width, height |-> height,
                        name |-> IF returnType = "file"
                                 THEN WebpFile(fileName).name
                                 ELSE <<>>,
                        type |-> BlobType(browser)])

\* a call c of optimizeImage: `if (!file) return null` comes first
OptimizeImageCall(c) ==
    IF c.file = "" THEN null
    ELSE OptimizeImage(c.image, c.fileName, c.returnType, c.browser)

OptimizeCalls ==
    { [fn |-> "optimizeImage", file |-> src, image |-> [width |-> w, height |-> h],
       fileName |-> f.name, returnType |-> r, browser |-> b,
       settled |-> <<>>, rejected |-> <<>>] :
         src \in {"", "url"}, w \in 1..MaxSide, h \in 1..MaxSide, f \in ImageFiles,
         r \in {"string", "file"}, b \in Browser }

InitOptimize ==
    /\ Mounted
    /\ variant = "verify"
    /\ call \in { Some(c) : c \in OptimizeCalls }

\* the promise settles: resolve(...) is reached on every path
OptimizeImageResolves ==
    /\ call # null
    /\ Val(call).fn = "optimizeImage"
    /\ Val(call).settled = <<>>
    /\ call' = Some([Val(call) EXCEPT !.settled =
                        <<OptimizeImageCall(Val(call))>>])
    /\ UNCHANGED <<variant, error, uploading, preview, isDragOver, selectedFile,
                   croppedAreaPixels, result, pickerOpen, readers, tasks>>

NextOptimize == OptimizeImageResolves

SpecOptimize == InitOptimize /\ [][NextOptimize]_vars

(***************************************************************************)
(* rotateSize on its own.  Its numbers are IEEE doubles.  A double is kept *)
(* as milli thousandths plus, for the results at right angles, ulps units  *)
(* in the last place of its integer part; a value of Math.cos or Math.sin  *)
(* is kept as milli thousandths plus eps multiples of Math.cos(Math.PI/2), *)
(* which is 6.123233995736766e-17 and not 0.                               *)
(***************************************************************************)
\* the rotations, in degrees, given to a lone call
Rotations == {0, 30, 45, 60, 90, 120, 135, 150, 180, 210, 225, 240, 270, 300, 315, 330}

Abs(n) == IF n < 0 THEN -n ELSE n

\* Math.cos(Math.PI / 2) * 2^52, in hundred-thousandths
cosHalfPi == 27577

\* Math.cos(getRadianAngle(rotation))
Cos(rotation) ==
    [milli |-> CASE rotation = 0 -> 1000
                 [] rotation \in {30, 330} -> 866
                 [] rotation \in {45, 315} -> 707
                 [] rotation \in {60, 300} -> 500
                 [] rotation \in {90, 270} -> 0
                 [] rotation \in {120, 240} -> -500
                 [] rotation \in {135, 225} -> -707
                 [] rotation \in {150, 210} -> -866
                 [] rotation = 180 -> -1000,
     \* Math.cos(Math.PI / 2) and Math.cos(3 * Math.PI / 2) = -1.8369701987210297e-16
     eps |-> CASE rotation = 90 -> 1
               [] rotation = 270 -> -3
               [] OTHER -> 0]

\* Math.sin(getRadianAngle(rotation))
Sin(rotation) ==
    [milli |-> Cos((rotation + 270) % 360).milli,
     \* Math.sin(Math.PI) = 1.2246467991473532e-16
     eps |-> IF rotation = 180 THEN 2 ELSE 0]

\* the term without Math.abs
TermSigned(trig, side) == [milli |-> trig.milli * side, eps |-> trig.eps * side]

\* Math.abs(trig * side)
Term(trig, side) == [milli |-> Abs(trig.milli * side), eps |-> Abs(trig.eps * side)]

\* the largest power of two not above n
Pow2Floor(n) == CHOOSE p \in {1, 2, 4, 8, 16, 32} : p <= n /\ n < 2 * p

\* a + b in doubles: what is below half a unit in the last place of the sum
\* is lost, the rest is rounded to whole units
Sum(a, b) ==
    LET milli == a.milli + b.milli
        eps == a.eps + b.eps
        unit == 100000 * Pow2Floor(milli \div 1000)
    IN  [milli |-> milli,
         ulps |-> IF eps = 0 THEN 0
                  ELSE (2 * cosHalfPi * eps + unit) \div (2 * unit)]

RotateSize(width, height, rotation) ==
    [width |-> Sum(Term(Cos(rotation), width), Term(Sin(rotation), height)),
     height |-> Sum(Term(Sin(rotation), width), Term(Cos(rotation), height))]

RotateCalls ==
    { [fn |-> "rotateSize", width |-> w, height |-> h, rotation |-> r,
       settled |-> <<>>, rejected |-> <<>>] :
         w \in 1..MaxSide, h \in 1..MaxSide, r \in Rotations }

InitRotate ==
    /\ Mounted
    /\ variant = "verify"
    /\ call \in { Some(c) : c \in RotateCalls }

RotateSizeReturns ==
    /\ call # null
    /\ Val(call).fn = "rotateSize"
    /\ Val(call).settled = <<>>
    /\ call' = Some([Val(call) EXCEPT !.settled =
                        <<RotateSize(Val(call).width, Val(call).height,
                                     Val(call).rotation)>>])
    /\ UNCHANGED <<variant, error, uploading, preview, isDragOver, selectedFile,
                   croppedAreaPixels, result, pickerOpen, readers, tasks>>

NextRotate == RotateSizeReturns

SpecRotate == InitRotate /\ [][NextRotate]_vars

(***************************************************************************)
(* getCroppedImg on its own, at right angles.  A surface is its size and,  *)
(* for each of its pixels, the pixel <<u, v>> of the source image it shows *)
(* or "transparent".  Points are kept doubled, so that the centre of pixel *)
(* u is 2u + 1 and half a side is a whole number.                          *)
(***************************************************************************)
\* The largest width and height of the source image of a lone call.
MaxImageSide == 3

RightAngles == {0, 90, 180, 270}
Flips == [horizontal : BOOLEAN, vertical : BOOLEAN]

\* rotation = 0, flip = { horizontal: false, vertical: false }
DefaultRotation == Some(0)
DefaultFlip == Some([horizontal |-> FALSE, vertical |-> FALSE])

\* a parameter's value: the argument, or the default when it was left out
Param(arg, default) == IF arg = null THEN Val(default) ELSE Val(arg)

\* a sign that mirrors when it should not
FlipSignInverted(flipped) == IF flipped THEN 1 ELSE -1

\* flip.horizontal ? -1 : 1
FlipSign(flipped) == IF flipped THEN -1 ELSE 1

\* canvas.width = bBoxWidth: the attribute keeps the integer part
Trunc(number) == number.milli \div 1000

\* the canvas sized to the bounding box of the rotated image
BoundingCanvas(image, rotation) ==
    LET bBox == RotateSize(image.width, image.height, rotation)
    IN  [width |-> Trunc(bBox.width), height |-> Trunc(bBox.height)]

\* where the centre of source pixel <<u, v>> is drawn by
\* translate(bBox / 2); rotate(rotRad); scale(flip); translate(-image / 2);
\* drawImage(image, 0, 0): the last transformation set is the first applied
ToCanvas(image, rotation, flip, u, v) ==
    LET cos == Cos(rotation).milli \div 1000
        sin == Sin(rotation).milli \div 1000
        bBox == BoundingCanvas(image, rotation)
        tx == (2 * u + 1) - image.width
        ty == (2 * v + 1) - image.height
        sx == FlipSign(flip.horizontal) * tx
        sy == FlipSign(flip.vertical) * ty
        rx == sx * cos - sy * sin
        ry == sx * sin + sy * cos
    IN  << (rx + bBox.width - 1) \div 2, (ry + bBox.height - 1) \div 2 >>

\* ctx.drawImage(image, 0, 0): each source pixel with the place it lands on
Drawn(image, rotation, flip) ==
    { << ToCanvas(image, rotation, flip, p[1], p[2]), p >> :
         p \in (0..image.width - 1) \X (0..image.height - 1) }

\* what a canvas drawn on so shows at <<X, Y>>
CanvasPixel(drawn, X, Y) ==
    IF \E d \in drawn : d[1] = <<X, Y>>
    THEN (CHOOSE d \in drawn : d[1] = <<X, Y>>)[2]
    ELSE "transparent"

\* croppedCtx.drawImage(canvas, x, y, width, height, 0, 0, width, height)
CroppedCanvas(image, pixelCrop, rotation, flip) ==
    LET bBox == BoundingCanvas(image, rotation)
        drawn == Drawn(image, rotation, flip)
    IN  [width |-> pixelCrop.width,
         height |-> pixelCrop.height,
         pixels |-> [q \in (0..pixelCrop.width - 1) \X (0..pixelCrop.height - 1) |->
                       LET X == pixelCrop.x + q[1]
                           Y == pixelCrop.y + q[2]
                       IN  IF X < bBox.width /\ Y < bBox.height
                           THEN CanvasPixel(drawn, X, Y)
                           ELSE "transparent"]]

\* how the promise of getCroppedImg(imageSrc, pixelCrop, rotation, flip)
\* settles: createImage rejects, a missing context returns null, toBlob
\* without a blob rejects, and otherwise it resolves to the URL of the PNG of
\* the cropped canvas
GetCroppedImg(image, pixelCrop, rotationArg, flipArg, browser) ==
    LET rotation == Param(rotationArg, DefaultRotation)
        flip == Param(flipArg, DefaultFlip)
    IN  CASE browser = "image error" -> [settled |-> <<>>, rejected |-> <<"error event">>]
          [] browser = "no context" -> [settled |-> <<null>>, rejected |-> <<>>]
          [] browser = "no blob" -> [settled |-> <<>>, rejected |-> <<"Failed to create blob.">>]
          [] OTHER -> [settled |-> <<Some(CroppedCanvas(image, pixelCrop, rotation, flip))>>,
                       rejected |-> <<>>]

\* the regions inside a surface
RegionsOf(surface) ==
    { r \in [x : 0..surface.width - 1, y : 0..surface.height - 1,
             width : 1..surface.width, height : 1..surface.height] :
         r.x + r.width <= surface.width /\ r.y + r.height <= surface.height }

\* the arguments of a lone call and the browser it runs in
CropCall(image, region, rotation, flip, browser) ==
    [fn |-> "getCroppedImg", image |-> image, pixelCrop |-> region,
     rotation |-> rotation, flip |-> flip, browser |-> browser,
     settled |-> <<>>, rejected |-> <<>>]

InitCrop ==
    /\ Mounted
    /\ variant = "verify"
    /\ \E image \in [width : 1..MaxImageSide, height : 1..MaxImageSide],
          rotation \in {null} \cup { Some(r) : r \in RightAngles },
          flip \in {null} \cup { Some(f) : f \in Flips },
          browser \in Browser \ {"png fallback"} :
          \E region \in RegionsOf(BoundingCanvas(image, Param(rotation, DefaultRotation))) :
             call = Some(CropCall(image, region, rotation, flip, browser))

GetCroppedImgReturns ==
    /\ call # null
    /\ Val(call).fn = "getCroppedImg"
    /\ Val(call).settled = <<>>
    /\ Val(call).rejected = <<>>
    /\ LET c == Val(call)
           outcome == GetCroppedImg(c.image, c.pixelCrop, c.rotation, c.flip, c.browser)
       IN  call' = Some([c EXCEPT !.settled = outcome.settled,
                                  !.rejected = outcome.rejected])
    /\ UNCHANGED <<variant, error, uploading, preview, isDragOver, selectedFile,
                   croppedAreaPixels, result, pickerOpen, readers, tasks>>

NextCrop == GetCroppedImgReturns

SpecCrop == InitCrop /\ [][NextCrop]_vars

(***************************************************************************)
(* What the page shows.                                                    *)
(***************************************************************************)
\* Number.prototype.toFixed(1) of n/d: the tenths, rounded half up
ToFixed1(n, d) ==
    LET tenths == (10 * n + d \div 2) \div d
    IN  [whole |-> tenths \div 10, tenth |-> tenths % 10]

\* "Document Confidence": (result.result.confidence * 100).toFixed(1) + "%"
ConfidenceText(data) == ToFixed1(Val(data.result).confidence * 100, 10000)

Idle == selectedFile = null /\ preview = null /\ result = null /\ error = null
Selecting == Drop \/ FileInputChange

(***************************************************************************)
(* Claims.                                                                 *)
(***************************************************************************)

\* C1: in every reachable state result and error are never both non-null, and
\* while uploading is true both result and error are null.
C1_OneActiveState ==
    /\ ~(result # null /\ error # null)
    /\ uploading => (result = null /\ error = null)

\* C2: at the moment handleUpload sets uploading to true, both result and
\* error are null, whatever the page showed before the Verify click.
C2_UploadStartsClean ==
    [][(~uploading /\ uploading') => (result' = null /\ error' = null)]_vars

\* C3: the number of outstanding POST requests never exceeds one.
C3_AtMostOnePost == OutstandingPosts <= 1

\* C4: immediately after handleReset, selectedFile, preview, croppedAreaPixels,
\* result and error are all null.
C4_ResetClearsAll ==
    [][HandleReset => /\ selectedFile' = null
                      /\ preview' = null
                      /\ croppedAreaPixels' = null
                      /\ result' = null
                      /\ error' = null]_vars

\* C5: once the page has been reset it stays in Idle (preview, result and error
\* null) until the user selects a file: no step other than a file selection
\* takes an idle page with no selected file out of Idle.
C5_StaysIdleAfterReset ==
    [][(Idle /\ ~Selecting) => (preview' = null /\ result' = null /\ error' = null)]_vars

\* C6: selecting a file whose declared type does not start with "image/", by
\* the file input or by drop, sets the error "Please select an image file
\* only" and leaves selectedFile, preview, result and uploading unchanged; no
\* decode is started.
C6_NonImageRejected ==
    [][\A f \in OtherFiles :
         (HandleDrop(<<f>>) \/ HandleFileInputChange(<<f>>)) =>
            /\ error' = Some("Please select an image file only")
            /\ UNCHANGED <<selectedFile, preview, result, uploading, readers>>]_vars

\* C6 witness: the inline error is shown on a page that has not left Idle.
C6_Witness ==
    /\ error = Some("Please select an image file only")
    /\ selectedFile = null
    /\ preview = null
    /\ readers = {}

\* The Result or Error state: a preview is displayed together with a result
\* or with the error of an upload.
UploadErrorShown == error # null /\ error # Some("Please select an image file only")
ResultOrErrorShown == preview # null /\ (result # null \/ UploadErrorShown)

SelectsImage(f) == HandleDrop(<<f>>) \/ HandleFileInputChange(<<f>>)

\* C7 as stated: whenever a preview is displayed together with a result or an
\* error, the user can select a new valid image file.
C7_SelectableInResultOrError ==
    ResultOrErrorShown => ENABLED (\E f \in ImageFiles : SelectsImage(f))

\* C7 amended: while a preview is displayed together with a result or an
\* error, no file can be selected unless a file picker opened before the
\* preview appeared is still showing (the dropzone's handlers are detached:
\* the user has to Reset first); and whenever a valid image file is selected,
\* the file is recorded, its decode is started, and result and error are
\* cleared.
C7_SelectionGated ==
    /\ []((ResultOrErrorShown /\ ~pickerOpen) => ~ENABLED (\E f \in Files : SelectsImage(f)))
    /\ [][\A f \in ImageFiles :
            SelectsImage(f) => /\ selectedFile' = Some(f)
                               /\ f \in readers'
                               /\ result' = null
                               /\ error' = null]_vars

\* C7 witness: the Result state, with no picker showing.
C7_Witness == preview # null /\ result # null /\ ~pickerOpen /\ ~uploading

RejectedOutcomes ==
    { o \in PostOutcomes : o.kind = "ok" /\ Val(o.data) \in RejectedPayloads }
AuthenticOutcomes ==
    { o \in PostOutcomes : o.kind = "ok" /\ Val(o.data) \in AuthenticPayloads }
FailedOutcomes == { o \in PostOutcomes : o.kind # "ok" }

\* C8: in the /verify variant, when an upload is answered with is_authentic =
\* false, the error text is the response's reasoning (the generic text if the
\* reasoning is empty) and result is null afterwards.
C8_RejectionShowsNoResult ==
    [][\A t \in Suspended, o \in RejectedOutcomes :
         (variant = "verify" /\ PostSettles(t, o)) =>
            /\ error' = Some(IF Val(Val(o.data).result).reasoning = ""
                             THEN "Upload failed. Please try again."
                             ELSE Val(Val(o.data).result).reasoning)
            /\ result' = null]_vars

\* C9: when an upload is answered with is_authentic = true, result holds the
\* response payload, error is null and uploading is false; a confidence of
\* 0.92 is displayed as 92.0.
C9_AuthenticShowsResult ==
    [][\A t \in Suspended, o \in AuthenticOutcomes :
         (variant = "verify" /\ PostSettles(t, o)) =>
            /\ result' = o.data
            /\ error' = null
            /\ ~uploading'
            /\ (Val(Val(o.data).result).confidence = 9200
                  => ConfidenceText(Val(result')) = [whole |-> 92, tenth |-> 0])]_vars

\* C10: when the POST fails, the attempt sets error and no result: on a
\* non-success response whose body has a non-empty message, error is that
\* message; on a non-success response without message and on a network
\* failure, error is "Upload failed. Please try again."; result is left as it
\* was and uploading ends.
C10_FailedPostSetsError ==
    [][\A t \in Suspended, o \in FailedOutcomes :
         PostSettles(t, o) =>
            /\ error' = Some(IF o.kind = "http" /\ o.message # ""
                             THEN o.message
                             ELSE "Upload failed. Please try again.")
            /\ result' = result
            /\ ~uploading']_vars

\* C10 witness: a failed POST has left its response's message as the error,
\* on a page that shows no result.
C10_Witness ==
    /\ error = Some("quota exceeded")
    /\ result = null
    /\ ~uploading
    /\ preview # null

ErrorOutcomes ==
    { o \in PostOutcomes : o.kind = "ok" /\ Val(o.data) \in ErrorPayloads }

\* C11: when the service answers 2xx with a structured error (an error string
\* and no result object), the text the page shows is the service's error
\* string: as the inline error, or in the result panel's error box.
C11_StructuredErrorShown ==
    [][\A t \in Suspended, o \in ErrorOutcomes :
         PostSettles(t, o) =>
            \/ error' = Some(Val(o.data).error)
            \/ result' = o.data]_vars

\* C12: when optimizeImage resolves to null the attempt is over: that step
\* issues no POST.
C12_OptimizerFailureTerminal ==
    [][\A t \in Suspended :
         OptimizeSettles(t, "null") => OutstandingPosts' = OutstandingPosts]_vars

\* C13: every failure of crop extraction or of compression during an upload
\* attempt ends the attempt with the inline error set to the generic text.
C13_PreparationFailureSurfaced ==
    [][\A t \in Suspended :
         (\/ CropSettles(t, "null")
          \/ CropSettles(t, "reject")
          \/ OptimizeSettles(t, "null")) =>
            error' = Some("Upload failed. Please try again.")]_vars

\* C14: every POST is issued after crop extraction and then compression have
\* completed, in that order, and its body is the compressed form of the
\* cropped image.
C14_CropThenCompressThenPost ==
    \A t \in Posting : t.img = <<"crop", "optimize">>

\* submissions (handleUpload invocations) that have not issued their POST yet
Unposted == InFlight - OutstandingPosts

\* C15: a submission issues at most one POST and nothing is retried: a step
\* issues at most one POST, and does so by advancing a submission that had not
\* posted yet; a submission comes into being only by a Verify click, one per
\* click; a POST that settles (failed or not) ends its submission and sends
\* nothing in its place.  Hence the POSTs issued never outnumber the clicks.
C15_OnePostPerClick ==
    [][/\ (tasks' # tasks) =>
             /\ OutstandingPosts' <= OutstandingPosts + 1
             /\ (OutstandingPosts' > OutstandingPosts) => (Unposted' = Unposted - 1)
             /\ (Unposted' > Unposted) => (HandleUpload /\ Unposted' = Unposted + 1)
       /\ \A t \in Posting :
             (\E o \in PostOutcomes : PostSettles(t, o)) =>
                /\ OutstandingPosts' = OutstandingPosts - 1
                /\ Unposted' = Unposted]_vars

\* C15 witness: an attempt's POST has failed and nothing is in flight after it.
C15_Witness ==
    /\ error = Some("Upload failed. Please try again.")
    /\ InFlight = 0
    /\ ~uploading
    /\ preview # null

\* C16: every upload request carries exactly one field, named image, holding
\* the re-encoded file, whose name is the selected file's name up to its first
\* "." followed by ".webp".
C16_SingleWebpImageField ==
    \A t \in Posting :
       /\ Len(RequestBody(t)) = 1
       /\ RequestBody(t)[1].field = "image"
       /\ RequestBody(t)[1].value.kind = "file"
       /\ \E i \in 1..Len(t.name) + 1 :
             /\ \A j \in 1..(i - 1) : t.name[j] # "."
             /\ i <= Len(t.name) => t.name[i] = "."
             /\ RequestBody(t)[1].value.name = SubSeq(t.name, 1, i - 1) \o <<".", "webp">>

\* a lone optimizeImage call that the browser did not disturb has settled
OptimizeSettledOk ==
    /\ call # null
    /\ Val(call).fn = "optimizeImage"
    /\ Val(call).file # ""
    /\ Val(call).browser = "ok"
    /\ Val(call).settled # <<>>

\* the output of the settled call has sides floor(0.9 * side) of the original
FloorSides ==
    LET out == Val(call).settled[1]
        image == Val(call).image
    IN  /\ out # null
        /\ 10 * Val(out).width <= 9 * image.width
        /\ 9 * image.width < 10 * (Val(out).width + 1)
        /\ 10 * Val(out).height <= 9 * image.height
        /\ 9 * image.height < 10 * (Val(out).height + 1)

\* C17 as stated: for every positive original width and height, those with a
\* floor of 0 included, the output of optimizeImage has sides
\* floor(0.9 * original).
C17_FloorForEveryPositive ==
    OptimizeSettledOk => FloorSides

\* C17: for every original whose sides are at least 2 the output of
\* optimizeImage has sides floor(0.9 * original); an original with a side
\* of 1, whose floor is 0, has no output: the promise resolves with null.
C17_FloorOrNothing ==
    OptimizeSettledOk =>
        IF Val(call).image.width >= 2 /\ Val(call).image.height >= 2
        THEN FloorSides
        ELSE Val(call).settled[1] = null

\* C17 witness: a 7x12 original has come out as 6x10.
C17_Witness ==
    /\ OptimizeSettledOk
    /\ Val(call).image = [width |-> 7, height |-> 12]
    /\ Val(call).settled[1] # null
    /\ Val(Val(call).settled[1]).width = 6
    /\ Val(Val(call).settled[1]).height = 10

\* the invocations whose request (the POST, or the read-back before it) is
\* under way: the ones past setUploading(true)
Requesting == { t \in Suspended : t.pc \in {"fetch", "post"} }

\* C18: uploading is true only while some attempt's request is still to
\* settle, and whenever a request settles (with a result, a rejection by the
\* service, an HTTP error or a network failure) the step leaves uploading
\* false.
C18_UploadingEndsOnSettle ==
    /\ [](uploading => Requesting # {})
    /\ [][\A t \in Requesting :
            (\/ \E o \in PostOutcomes : PostSettles(t, o)
             \/ FetchSettles(t, FALSE)) => ~uploading']_vars

\* C18 witness: a request has settled with a structured error stored as the
\* result, and the page is interactive again with nothing in flight.
C18_Witness ==
    /\ ~uploading
    /\ InFlight = 0
    /\ result # null
    /\ Val(result) \in ErrorPayloads

\* the user's ways back: Reset brings the page to Idle at once
CanReset == ENABLED (HandleReset /\ Idle')

\* ... or the decode of a selected file completes and Reset does
CanLoadThenReset == ENABLED (Loaded /\ CanReset')

\* ... or the user selects an image first
CanSelectThenReset == ENABLED (Selecting /\ (CanReset \/ CanLoadThenReset)')

\* C19: the page starts in Idle and has no terminal state: from every
\* reachable state the user can bring it back to Idle (no file, preview,
\* result or error) by Reset, preceded where no preview is shown by selecting
\* an image and the completion of that file's decode.
C19_AlwaysResettable ==
    /\ Idle
    /\ [](\/ Idle
          \/ CanReset
          \/ CanLoadThenReset
          \/ CanSelectThenReset)

\* C19 witness: a result is on screen without a preview, so there is no Reset
\* button, and selecting an image is the way back.
C19_Witness ==
    /\ preview = null
    /\ result # null
    /\ ~CanReset
    /\ CanSelectThenReset

\* a Verify click in this state starts an attempt
UploadStarts ==
    /\ ButtonsShown
    /\ ~uploading
    /\ selectedFile # null
    /\ croppedAreaPixels # null
    /\ preview # null

\* the image the attempt applies getCroppedImg to: the preview on "/verify",
\* the preview as compressed by optimizeImage on "/user/documents"
ExtractionImage ==
    IF variant = "verify"
    THEN Val(preview)
    ELSE [dataOf |-> Val(preview).dataOf,
          width |-> CanvasSide(Val(preview).width),
          height |-> CanvasSide(Val(preview).height)]

\* C21: the crop region an upload attempt passes to extraction has positive
\* width and height, lies within the image it is applied to, and is a region
\* the crop widget reported for that image.
C21_RegionOfExtractedImage ==
    UploadStarts =>
       LET region == Val(croppedAreaPixels)
       IN  /\ region.width > 0
           /\ region.height > 0
           /\ region.x >= 0
           /\ region.y >= 0
           /\ region.x + region.width <= ExtractionImage.width
           /\ region.y + region.height <= ExtractionImage.height
           /\ region \in CropsOf(ExtractionImage)

\* C22: whenever a preview is shown, a file is selected and the preview is
\* the data URL of that file.
C22_PreviewOfSelectedFile ==
    preview # null =>
       /\ selectedFile # null
       /\ Val(preview) = DataURL(Val(selectedFile))

\* C23: a request's response never writes result or error once the file it
\* was issued for has been reset or replaced.
C23_ResponseOfCurrentFile ==
    [][\A t \in Posting :
          ((\E o \in PostOutcomes : PostSettles(t, o))
             /\ (selectedFile = null \/ Val(selectedFile).name # t.name)) =>
                (result' = result /\ error' = error)]_vars

\* C24: selecting a valid image records the file and clears error and result
\* in the same step, leaves preview as it was and leaves the file's decode
\* pending; preview takes a new value only in the step in which a decode
\* completes, and the value is that decode's data URL.
C24_SelectionDoesNotPreview ==
    /\ [][\A f \in ImageFiles :
            SelectsImage(f) =>
               /\ selectedFile' = Some(f)
               /\ error' = null
               /\ result' = null
               /\ preview' = preview
               /\ f \in readers']_vars
    /\ [][(preview' # preview /\ preview' # null) =>
             \E f \in readers : ReaderLoad(f) /\ preview' = Some(DataURL(f))]_vars

\* C24 witness: a file is recorded, nothing is shown yet and its decode is
\* still pending.
C24_Witness ==
    /\ selectedFile # null
    /\ Val(selectedFile) \in readers
    /\ preview = null
    /\ error = null
    /\ result = null

\* C25: with selectedFile, croppedAreaPixels or preview null a Verify click
\* changes nothing: no invocation is suspended at a crop or compression, no
\* POST is issued, uploading, error and result stay as they are.
C25_UploadNoOpOnNull ==
    (selectedFile = null \/ croppedAreaPixels = null \/ preview = null) =>
        ~ENABLED (HandleUpload /\ vars' # vars)

\* C25 witness: the Verify button can be clicked while no crop region has been
\* reported yet, or while no file is recorded.
C25_Witness ==
    /\ ENABLED HandleUpload
    /\ (croppedAreaPixels = null \/ selectedFile = null)

\* C29: isDragOver is false whenever a preview is displayed.
C29_NoHighlightWithPreview ==
    preview # null => ~isDragOver

\* C28: a call of optimizeImage settles exactly once and never rejects; it
\* resolves to null for a falsy input, an image load error, an unavailable 2D
\* context or a null blob, and otherwise to a blob URL string when returnType
\* is "string" and to a File of type image/webp when returnType is "file".
C28_ResolvesOnceAsDocumented ==
    (call # null /\ Val(call).fn = "optimizeImage") =>
       LET c == Val(call)
       IN  /\ c.rejected = <<>>
           /\ Len(c.settled) <= 1
           /\ (c.settled = <<>>) => ENABLED OptimizeImageResolves
           /\ (c.settled # <<>>) =>
                 IF \/ c.file = ""
                    \/ c.browser \in {"image error", "no context", "no blob"}
                    \/ c.image.width = 1
                    \/ c.image.height = 1
                 THEN c.settled[1] = null
                 ELSE /\ c.settled[1] # null
                      /\ Val(c.settled[1]).kind = c.returnType
                      /\ (c.returnType = "file") =>
                            Val(c.settled[1]).type = <<"image", "/", "webp">>

\* a lone rotateSize call has returned
RotateReturned ==
    /\ call # null
    /\ Val(call).fn = "rotateSize"
    /\ Val(call).settled # <<>>

\* the returned box is exactly width x height
BoxIs(width, height) ==
    LET box == Val(call).settled[1]
    IN  /\ box.width = [milli |-> 1000 * width, ulps |-> 0]
        /\ box.height = [milli |-> 1000 * height, ulps |-> 0]

\* the returned box is width x height up to a few units in the last place,
\* none of them below
BoxIsNearly(width, height) ==
    LET box == Val(call).settled[1]
    IN  /\ box.width.milli = 1000 * width
        /\ box.height.milli = 1000 * height
        /\ box.width.ulps \in 0..(3 * height)
        /\ box.height.ulps \in 0..(3 * width)

\* sides are not negative, and the area is at least w*h
BoxCovers ==
    LET c == Val(call)
        box == c.settled[1]
    IN  /\ box.width.milli >= 0 /\ box.width.ulps >= 0
        /\ box.height.milli >= 0 /\ box.height.ulps >= 0
        /\ box.width.milli * box.height.milli >= 1000000 * c.width * c.height
        /\ (c.rotation = 45) =>
              /\ box.width.milli = 707 * (c.width + c.height)
              /\ box.height.milli = 707 * (c.width + c.height)
        /\ (c.rotation = 30) =>
              /\ box.width.milli = 866 * c.width + 500 * c.height
              /\ box.height.milli = 500 * c.width + 866 * c.height

\* the area of the returned box is exactly w*h
AreaIsExact ==
    LET c == Val(call)
        box == c.settled[1]
    IN  /\ box.width.milli * box.height.milli = 1000000 * c.width * c.height
        /\ box.width.ulps = 0
        /\ box.height.ulps = 0

CroppedUnrotated ==
    /\ call # null
    /\ Val(call).fn = "getCroppedImg"
    /\ Val(call).rotation \in {null, Some(0)}
    /\ Val(call).flip \in {null, Some([horizontal |-> FALSE, vertical |-> FALSE])}
    /\ Val(call).settled # <<>>
    /\ Val(call).settled[1] # null

\* C26: with rotation 0 and no flip the intermediate surface has exactly the
\* source's dimensions, and the output is a surface of exactly width x height
\* whose pixel <<i, j>> is the source pixel <<x + i, y + j>>.
C26_IdentityAtZero ==
    CroppedUnrotated =>
       LET c == Val(call)
           out == Val(c.settled[1])
       IN  /\ BoundingCanvas(c.image, 0) = [width |-> c.image.width,
                                             height |-> c.image.height]
           /\ out.width = c.pixelCrop.width
           /\ out.height = c.pixelCrop.height
           /\ DOMAIN out.pixels = (0..c.pixelCrop.width - 1) \X (0..c.pixelCrop.height - 1)
           /\ \A q \in DOMAIN out.pixels :
                 out.pixels[q] = <<c.pixelCrop.x + q[1], c.pixelCrop.y + q[2]>>

\* C26 witness: the page's call on a 3x2 image with the region {1, 0, 2, 2}
\* has given a 2x2 surface starting at source pixel <<1, 0>>.
C26_Witness ==
    /\ CroppedUnrotated
    /\ Val(call).rotation = null
    /\ Val(call).flip = null
    /\ Val(call).image = [width |-> 3, height |-> 2]
    /\ Val(call).pixelCrop = [x |-> 1, y |-> 0, width |-> 2, height |-> 2]
    /\ Val(Val(call).settled[1]).pixels[<<0, 0>>] = <<1, 0>>
    /\ Val(Val(call).settled[1]).pixels[<<1, 1>>] = <<2, 1>>

====
